---------------------------- MODULE Spec2Model ----------------------------
(***************************************************************************)
(* Device signaling hub: the session registry (ConnectionManager), the     *)
(* heartbeat monitor, the per-device receive loop, the message dispatch    *)
(* and the cloud-control ingress, as one asyncio event loop.               *)
(*                                                                         *)
(* asyncio is cooperative: a coroutine runs without interruption from one  *)
(* await to the next.  Every action below is one such run: it starts where *)
(* a task was suspended (accept, send_json, close, receive, sleep) and     *)
(* ends at the task's next suspension.                                     *)
(***************************************************************************)
EXTENDS Integers, Sequences, FiniteSets, TLC

(* ------------------------------ bounds -------------------------------- *)
MaxConn == 2          \* WebSocket connections accepted over a run
MaxRecv == 1          \* frames a device sends on one connection
MaxAdvance == 1       \* clock advances over a run
MaxCtl == 1           \* cloud-control requests over a run
Horizon == 301        \* the clock's last value in the timed specification
MaxSeq == 2
MaxMember == 3           \* frames in flight over the open connections, dispatch specification

(* ------------------------- program constants -------------------------- *)
HeartbeatTimeout == 180      \* settings.heartbeat_timeout
MonitorInterval == 60        \* asyncio.sleep(60)
CloseNormal == 1000          \* disconnect(code=1000)
CloseTimeout == 1008         \* disconnect(device_id, code=1008, ...)
CloseInternal == 1011        \* disconnect(device_id, code=1011, ...)
DeviceIdLen == 32            \* len(v) != 32
DefaultBitrate == 2000000
DefaultFramerate == 30

(* device ids, as the 32-character strings of the path and of the envelope *)
Devices == {"d1000000000000000000000000000000", "d2000000000000000000000000000000"}
Conns == 1..MaxConn
Ctls == 1..MaxCtl
Deltas == {HeartbeatTimeout - 1, HeartbeatTimeout + 1}
None == "None"
Absent == "<absent>"

(* WebSocketState *)
CONNECTING == "CONNECTING"
CONNECTED == "CONNECTED"
DISCONNECTED == "DISCONNECTED"

(* DriftMsgType, DriftEvent *)
DriftMsgType == {"notify", "device_control", "control", "device_notify", "message"}
DriftEvent == {"join", "device_join", "device_info", "power_off", "get_rtmp",
               "get_screen", "start_rtmp", "stop_rtmp", "start_rtsp", "stop_rtsp",
               "start_record", "stop_record", "dzoom", "stream_res",
               "stream_bitrate", "stream_framerate", "led", "exposure", "filter",
               "mic_sensitivity", "fov", "screen"}

VARIABLES
    active_connections,   \* ConnectionManager.active_connections: key -> websocket
    device_status,        \* ConnectionManager.device_status: key -> DeviceStatus
    status_order,         \* insertion order of device_status (dict order)
    heartbeat_monitor_task, \* ConnectionManager.heartbeat_monitor_task
    application_state,    \* websocket.application_state, per websocket
    client_state,         \* websocket.client_state, per websocket
    now,                  \* datetime.now(), in seconds
    advances,             \* clock advances so far
    conn,                 \* the endpoint task of each connection
    mon,                  \* the _monitor_heartbeats task
    ctl,                  \* the cloud-control request handlers
    app,                  \* lifespan: "init" | "running" | "stopped"
    lifespan_task,        \* lifespan's local heartbeat_monitor_task
    closes,               \* history: the closes issued on each websocket
    sessions,             \* history: websockets registered and not yet removed
    dupConnect,           \* history: a connect has replaced a registered key
    discSince,            \* history: per key, a disconnect returned since its connect
    ev,                   \* history: the calls that returned in the latest step
    manager,              \* manager.py: the room-indexed ConnectionManager
    rtask                 \* its websockets, endpoint tasks and broadcast

vars == <<active_connections, device_status, status_order, heartbeat_monitor_task,
          application_state, client_state, now, advances, conn,
          mon, ctl, app, lifespan_task, closes, sessions, dupConnect, discSince,
          ev, manager, rtask>>


(* ----------------------------- helpers -------------------------------- *)
Remove(f, k) == [x \in DOMAIN f \ {k} |-> f[x]]
Put(f, k, v) == [x \in DOMAIN f \cup {k} |-> IF x = k THEN v ELSE f[x]]
Without(s, k) == SelectSeq(s, LAMBDA x : x # k)

(* an envelope: the six fields of DriftMessage; Absent marks a key that the
   frame or dict does not carry *)
Envelope(t, e, d, p, c, data) ==
    [type |-> t, event |-> e, deviceId |-> d, playId |-> p, code |-> c, data |-> data]
AbsentData == [absent |-> TRUE]
EmptyData == [empty |-> TRUE]
NoMsg == Envelope(Absent, Absent, Absent, Absent, 0, AbsentData)

(* a handler's return value None *)
NoReply == NoMsg

(* DeviceStatus.device_info = None *)
NoInfo == [stream_res |-> None, stream_bitrate |-> 0, stream_framerate |-> 0]

(* the dict connect sends as connection acknowledgement *)
JoinAck == Envelope("notify", "device_join", Absent, Absent, 0, EmptyData)

(* a pending awaited call of a task: kind "none" | "send" | "close" *)
NoCall == [kind |-> "none", key |-> "", ws |-> 0, msg |-> NoMsg, code |-> 0,
           origin |-> 0, prior |-> FALSE, via |-> "none", before |-> <<>>]

(* the registry and the transports, as one value that the manager's methods
   transform *)
World == [ac |-> active_connections, ds |-> device_status, order |-> status_order,
          aps |-> application_state, cls |-> client_state,
          closes |-> closes, sessions |-> sessions, dup |-> dupConnect,
          since |-> discSince, discs |-> {}, sends |-> {}, connects |-> {}]

SetWorld(w) ==
    /\ active_connections' = w.ac
    /\ device_status' = w.ds
    /\ status_order' = w.order
    /\ application_state' = w.aps
    /\ client_state' = w.cls
    /\ closes' = w.closes
    /\ sessions' = w.sessions
    /\ dupConnect' = w.dup
    /\ discSince' = w.since

(* the calls that returned in a step: disconnect and send_message calls (from
   the world the step ends in), the frame handled, the monitor's scan, the
   sessions the monitor had collected when its eviction loop ended, and the
   registrations made by connect *)
Events(w, handled, scan, tickEnd) ==
    [discs |-> w.discs, sends |-> w.sends, handled |-> handled, scan |-> scan,
     tickEnd |-> tickEnd, connects |-> w.connects]
NoEvents == [discs |-> {}, sends |-> {}, handled |-> {}, scan |-> {}, tickEnd |-> {},
             connects |-> {}]

(* what a caller can observe of the registry and the transports *)
Registry(w) == <<w.ac, w.ds>>
Observable(w) == <<w.ac, w.ds, w.aps, w.cls, w.closes>>

(* ----------------------- ConnectionManager ---------------------------- *)
(* a DeviceStatus whose times are defaults fixed when the module was loaded *)
DeviceStatusEpoch(d, t) ==
    [device_id |-> d, connection_time |-> 0, last_heartbeat |-> 0, device_info |-> NoInfo]

DeviceStatus(d, t) ==
    [device_id |-> d, connection_time |-> t, last_heartbeat |-> t, device_info |-> NoInfo]

(* a _cleanup_connection that forgets device_status *)
CleanupKeepsStatus(w, k) ==
    [w EXCEPT !.ac = Remove(w.ac, k),
              !.sessions = IF k \in DOMAIN w.ac THEN @ \ {w.ac[k]} ELSE @]

(* _cleanup_connection *)
CleanupConnection(w, k) ==
    [w EXCEPT !.ac = Remove(w.ac, k),
              !.ds = Remove(w.ds, k),
              !.order = Without(w.order, k),
              !.sessions = IF k \in DOMAIN w.ac THEN @ \ {w.ac[k]} ELSE @]

(* a disconnect that cleans up after the close instead of in a finally *)
CleanupOnlyOnSuccess(w, k, ok) == IF ok THEN CleanupConnection(w, k) ELSE w

(* disconnect: the finally clause runs whether or not the close raised *)
CleanupAfterClose(w, k, ok) == CleanupConnection(w, k)

(* a disconnect without the except clause: a close that raises leaves it *)
CloseErrorPropagates(ok) == ok

(* disconnect: except Exception around the close; ok says whether the close
   returned; gives whether disconnect itself returns normally *)
CloseErrorCaught(ok) == TRUE

(* disconnect: the test before websocket.close *)
CloseGuard(w, ws) == w.cls[ws] # DISCONNECTED /\ w.aps[ws] # DISCONNECTED

(* the record of a disconnect call at its return *)
DiscReturn(w, k, prior, registered, closed, closeRaised, raised, changed) ==
    [w EXCEPT !.discs = @ \cup {[key |-> k, prior |-> prior,
                                 registered |-> registered, closed |-> closed,
                                 closeRaised |-> closeRaised,
                                 raised |-> raised, changed |-> changed,
                                 present |-> k \in DOMAIN w.ac \/ k \in DOMAIN w.ds]},
              !.since[k] = TRUE]

(* disconnect, from the call to its return or to the await of websocket.close:
   gives the world and the pending call (kind "none": it returned) *)
DisconnectBegin(w, k, code, origin, via, before) ==
    IF k \notin DOMAIN w.ac
    THEN [w |-> DiscReturn(w, k, w.since[k], FALSE, FALSE, FALSE, FALSE, FALSE),
          call |-> NoCall]
    ELSE LET ws == w.ac[k] IN
         IF CloseGuard(w, ws)
         THEN [w |-> [w EXCEPT !.aps[ws] = DISCONNECTED,
                               !.closes[ws] = Append(@, [code |-> code, origin |-> origin,
                                                         client_state |-> w.cls[ws],
                                                         application_state |-> w.aps[ws]])],
               call |-> [kind |-> "close", key |-> k, ws |-> ws, msg |-> NoMsg,
                         code |-> code, origin |-> origin, prior |-> w.since[k],
                         via |-> via, before |-> before]]
         ELSE LET w1 == CleanupAfterClose(w, k, TRUE)
              IN [w |-> DiscReturn(w1, k, w.since[k], TRUE, FALSE, FALSE, FALSE,
                                   Observable(w1) # Observable(w)),
                  call |-> NoCall]

(* the record of a send_message call at its return *)
SendReturn(w, k, ws, m, registered, wrote, result, before) ==
    [w EXCEPT !.sends = @ \cup {[key |-> k, ws |-> ws, msg |-> m,
                                 registered |-> registered,
                                 wrote |-> wrote, result |-> result,
                                 present |-> k \in DOMAIN w.ac \/ k \in DOMAIN w.ds,
                                 regChanged |-> Registry(w) # before]}]

(* send_message, from the call to the await of websocket.send_json *)
SendMessageBegin(w, k, m) ==
    IF k \in DOMAIN w.ac
    THEN [w |-> w,
          call |-> [kind |-> "send", key |-> k, ws |-> w.ac[k], msg |-> m, code |-> 0,
                    origin |-> w.ac[k], prior |-> FALSE, via |-> "send", before |-> <<>>]]
    ELSE [w |-> SendReturn(w, k, 0, m, FALSE, FALSE, FALSE, Registry(w)), call |-> NoCall]

(* a send_message that swallows the write error without disconnect *)
SendExceptSwallow(w, k, ws, before) == [w |-> w, call |-> NoCall]

(* send_message: except Exception, await self.disconnect(connection_id); the
   websocket whose send raised is left with application_state DISCONNECTED *)
SendExcept(w, k, ws, before) ==
    DisconnectBegin([w EXCEPT !.aps[ws] = DISCONNECTED], k, CloseNormal, ws, "send",
                    before)

(* the awaited call of a task completes: ok says whether the transport
   operation succeeded (TRUE) or raised (FALSE).  Gives the world, the
   next pending call, the value returned (send_message's boolean) and
   whether an exception leaves the call *)
ResumeCall(w, call, ok) ==
    IF call.kind = "send"
    THEN IF ok
         THEN [w |-> SendReturn(w,
                                call.key, call.ws, call.msg, TRUE, TRUE, TRUE,
                                Registry(w)),
               call |-> NoCall, res |-> TRUE, raised |-> FALSE]
         ELSE LET d == SendExcept(w, call.key, call.ws, Registry(w))
              IN IF d.call.kind = "none"
                 THEN [w |-> SendReturn(d.w, call.key, call.ws, call.msg, TRUE,
                                        FALSE, FALSE, Registry(w)),
                       call |-> NoCall, res |-> FALSE, raised |-> FALSE]
                 ELSE [w |-> d.w, call |-> [d.call EXCEPT !.msg = call.msg],
                       res |-> FALSE, raised |-> FALSE]
    ELSE LET w1 == CleanupAfterClose(w, call.key, ok)
             raised == ~CloseErrorCaught(ok)
             w2 == DiscReturn(w1, call.key, call.prior, TRUE, TRUE, ~ok, raised, TRUE)
         IN [w |-> IF call.via = "send"
                   THEN SendReturn(w2, call.key, call.origin, call.msg, TRUE, FALSE,
                                   FALSE, call.before)
                   ELSE w2,
             call |-> NoCall, res |-> FALSE, raised |-> raised]

(* the transport operation a task awaits can succeed / can raise *)
Outcomes(w, call) ==
    {ok \in BOOLEAN : ok /\ call.kind = "send" => w.aps[call.ws] = CONNECTED}

(* an update_heartbeat that creates the entry it does not find *)
UpdateHeartbeatUpsert(w, k) ==
    [w EXCEPT !.ds = IF k \in DOMAIN w.ds
                     THEN [w.ds EXCEPT ![k].last_heartbeat = now]
                     ELSE Put(w.ds, k, DeviceStatus(k, now))]

(* an update_heartbeat that restarts the session's clock *)
UpdateHeartbeatTouchesConnect(w, k) ==
    IF k \in DOMAIN w.ds
    THEN [w EXCEPT !.ds[k].last_heartbeat = now, !.ds[k].connection_time = now]
    ELSE w

(* update_heartbeat *)
UpdateHeartbeat(w, k) ==
    IF k \in DOMAIN w.ds THEN [w EXCEPT !.ds[k].last_heartbeat = now] ELSE w

(* an update_device_info that keeps the stored value of a field where the
   report has the default *)
UpdateDeviceInfoMerge(w, k, info) ==
    IF k \in DOMAIN w.ds
    THEN LET old == w.ds[k].device_info IN
         [w EXCEPT !.ds[k].device_info =
             IF old = NoInfo THEN info
             ELSE [stream_res |-> IF info.stream_res = "720P" THEN old.stream_res
                                  ELSE info.stream_res,
                   stream_bitrate |-> IF info.stream_bitrate = DefaultBitrate
                                      THEN old.stream_bitrate ELSE info.stream_bitrate,
                   stream_framerate |-> IF info.stream_framerate = DefaultFramerate
                                        THEN old.stream_framerate
                                        ELSE info.stream_framerate]]
    ELSE w

(* update_device_info *)
UpdateDeviceInfo(w, k, info) ==
    IF k \in DOMAIN w.ds THEN [w EXCEPT !.ds[k].device_info = info] ELSE w

(* get_online_devices *)
RECURSIVE OnlineFrom(_, _)
OnlineFrom(ds, order) ==
    IF order = <<>> THEN <<>>
    ELSE <<[device_id |-> ds[Head(order)].device_id,
            connected_at |-> ds[Head(order)].connection_time,
            last_heartbeat |-> ds[Head(order)].last_heartbeat]>>
         \o OnlineFrom(ds, Tail(order))
GetOnlineDevices == OnlineFrom(device_status, status_order)

(* connect, after websocket.accept() has returned, up to the await inside
   send_message *)
ConnectRegister(w, ws, d) ==
    LET w1 == [w EXCEPT !.aps[ws] = CONNECTED,
                        !.cls[ws] = CONNECTED,
                        !.ac = Put(w.ac, d, ws),
                        !.ds = Put(w.ds, d, DeviceStatus(d, now)),
                        !.order = IF d \in DOMAIN w.ds THEN @ ELSE Append(@, d),
                        !.sessions = @ \cup {ws},
                        !.dup = @ \/ d \in DOMAIN w.ac,
                        !.since[d] = FALSE,
                        !.connects = @ \cup {[key |-> d, ws |-> ws,
                                              prior |-> w.since[d],
                                              replaced |-> d \in DOMAIN w.ac]}]
    IN SendMessageBegin(w1, d, JoinAck)


(* ------------------------- models.py ------------------------------ *)
(* len(v) of a deviceId *)
IdLength(v) == Len(v)

(* validate_device_id raises no ValueError: if v and len(v) != 32: raise *)
ValidateDeviceId(v) == v = "" \/ IdLength(v) = DeviceIdLen

(* a JSON value of a payload, with its type *)
JInt(n) == [int |-> n]
JStr(x) == [str |-> x]
IsInt(j) == DOMAIN j = {"int"}
IsStr(j) == DOMAIN j = {"str"}

(* Resolution *)
Resolution == {"4K", "4KUHD", "2.7K", "1080P", "720P", "WVGA"}

(* DriftMessage of message_data: the fields with their defaults *)
DriftMessage(m) ==
    [type |-> m.type, event |-> m.event,
     deviceId |-> IF m.deviceId = Absent THEN "" ELSE m.deviceId,
     playId |-> IF m.playId = Absent THEN "" ELSE m.playId,
     code |-> m.code,
     data |-> IF m.data = AbsentData THEN EmptyData ELSE m.data]

(* DriftMessage of message_data does not raise: both discriminators are
   members of their enumerations, validate_device_id passes *)
ValidEnvelope(m) ==
    /\ m.type \in DriftMsgType
    /\ m.event \in DriftEvent
    /\ ValidateDeviceId(DriftMessage(m).deviceId)

(* DeviceInfo of data does not raise: stream_res is declared str,
   stream_bitrate and stream_framerate int, with no further constraint *)
DeviceInfoValid(data) ==
    /\ "stream_res" \in DOMAIN data => IsStr(data.stream_res)
    /\ "stream_bitrate" \in DOMAIN data => IsInt(data.stream_bitrate)
    /\ "stream_framerate" \in DOMAIN data => IsInt(data.stream_framerate)

(* DeviceInfo of data: the stream fields, with their defaults *)
DeviceInfo(data) ==
    [stream_res |-> IF "stream_res" \in DOMAIN data THEN data.stream_res.str ELSE "720P",
     stream_bitrate |-> IF "stream_bitrate" \in DOMAIN data THEN data.stream_bitrate.int
                        ELSE DefaultBitrate,
     stream_framerate |-> IF "stream_framerate" \in DOMAIN data
                          THEN data.stream_framerate.int ELSE DefaultFramerate]

(* ------------------ drift_websocket_handler.py -------------------- *)
(* an error reply that does not echo the ids of the request *)
ErrMsgBare(message) ==
    Envelope("message", message.event, "", "", 0 - 1, EmptyData)

(* err_msg: DriftMessage with type message and code -1, model_dump *)
ErrMsg(message) ==
    Envelope("message", message.event, message.deviceId, message.playId, 0 - 1, EmptyData)

(* a handle_device_info that stores under the envelope's deviceId *)
HandleDeviceInfoByEnvelope(w, message, k) ==
    [w |-> IF DeviceInfoValid(message.data)
           THEN UpdateDeviceInfo(w, message.deviceId, DeviceInfo(message.data))
           ELSE w,
     resp |-> NoReply, raised |-> FALSE]

(* handle_device_info *)
HandleDeviceInfo(w, message, k) ==
    [w |-> IF DeviceInfoValid(message.data)
           THEN UpdateDeviceInfo(w, k, DeviceInfo(message.data))
           ELSE w,
     resp |-> NoReply, raised |-> FALSE]

(* a handle_notify_message that acknowledges the heartbeat *)
HandleNotifyAcks(w, message, k) ==
    LET w1 == UpdateHeartbeat(w, k) IN
    IF message.event = "device_info" THEN HandleDeviceInfo(w1, message, k)
    ELSE [w |-> w1,
          resp |-> Envelope("notify", message.event, message.deviceId, message.playId,
                            0, EmptyData),
          raised |-> FALSE]

(* handle_notify_message *)
HandleNotifyMessage(w, message, k) ==
    LET w1 == UpdateHeartbeat(w, k) IN
    IF message.event = "join" THEN [w |-> w1, resp |-> NoReply, raised |-> FALSE]
    ELSE IF message.event = "device_info" THEN HandleDeviceInfo(w1, message, k)
    ELSE [w |-> w1, resp |-> NoReply, raised |-> FALSE]

(* connectionManager.get_device_status *)
GetDeviceStatus(w, k) == IF k \in DOMAIN w.ds THEN w.ds[k] ELSE DeviceStatus(None, 0)

(* a get_rtmp_address that fails when no device_info was reported *)
GetRtmpNeedsInfo(w, message, k) ==
    LET st == GetDeviceStatus(w, k) IN
    IF st.device_id = None \/ st.device_info = NoInfo
    THEN [w |-> w, resp |-> ErrMsg(message), raised |-> FALSE]
    ELSE [w |-> w,
          resp |-> Envelope("device_notify", message.event, message.deviceId,
                            message.playId, 0,
                            [rtmp_url |-> <<"rtmp", "live", k>>,
                             stream_res |-> st.device_info.stream_res,
                             stream_bitrate |-> st.device_info.stream_bitrate,
                             stream_framerate |-> st.device_info.stream_framerate]),
          raised |-> FALSE]

(* get_rtmp_address *)
GetRtmpAddress(w, message, k) ==
    LET st == GetDeviceStatus(w, k) IN
    IF st.device_id = None THEN [w |-> w, resp |-> ErrMsg(message), raised |-> FALSE]
    ELSE LET info == st.device_info
             params == IF info = NoInfo
                       THEN [stream_res |-> "720P", stream_bitrate |-> DefaultBitrate,
                             stream_framerate |-> DefaultFramerate]
                       ELSE info
         IN [w |-> w,
             resp |-> Envelope("device_notify", message.event, message.deviceId,
                               message.playId, 0,
                               [rtmp_url |-> <<"rtmp", "live", k>>,
                                stream_res |-> params.stream_res,
                                stream_bitrate |-> params.stream_bitrate,
                                stream_framerate |-> params.stream_framerate]),
             raised |-> FALSE]

(* a get_screen_address without its except clause: the ValueError leaves it *)
GetScreenAddressRaises(w, message, k) ==
    LET st == GetDeviceStatus(w, k) IN
    IF st.device_id = None THEN [w |-> w, resp |-> NoReply, raised |-> TRUE]
    ELSE [w |-> w,
          resp |-> Envelope("device_notify", message.event, message.deviceId,
                            message.playId, 0,
                            [screenName |-> "", deviceId |-> message.deviceId,
                             url |-> <<"https", "upload", "screenshot">>,
                             fileBase64 |-> ""]),
          raised |-> FALSE]

(* get_screen_address: a missing device status raises ValueError inside the
   try, and the except clause answers with the error reply *)
GetScreenAddress(w, message, k) ==
    LET st == GetDeviceStatus(w, k) IN
    IF st.device_id = None THEN [w |-> w, resp |-> ErrMsg(message), raised |-> FALSE]
    ELSE [w |-> w,
          resp |-> Envelope("device_notify", message.event, message.deviceId,
                            message.playId, 0,
                            [screenName |-> "", deviceId |-> message.deviceId,
                             url |-> <<"https", "upload", "screenshot">>,
                             fileBase64 |-> ""]),
          raised |-> FALSE]

(* a handle_power_off whose disconnect has run before it returns *)
PowerOffDisconnectAwaited(w, k) == CleanupConnection(w, k)

(* handle_power_off: connectionManager.disconnect(device_id) builds the
   coroutine and drops it; without an await its body never runs *)
PowerOffDisconnect(w, k) == w

(* handle_power_off *)
HandlePowerOff(w, message, k) ==
    [w |-> PowerOffDisconnect(w, k),
     resp |-> Envelope("device_notify", message.event, message.deviceId,
                       message.playId, 0, EmptyData),
     raised |-> FALSE]

(* handle_device_control *)
HandleDeviceControl(w, message, k) ==
    IF message.event = "get_rtmp" THEN GetRtmpAddress(w, message, k)
    ELSE IF message.event = "get_screen" THEN GetScreenAddress(w, message, k)
    ELSE IF message.event = "power_off" THEN HandlePowerOff(w, message, k)
    ELSE [w |-> w, resp |-> ErrMsg(message), raised |-> FALSE]

(* handle_device_message: the except branch, reached when DriftMessage of message_data
   raised, reads the local `message` that was never bound; the
   UnboundLocalError leaves the function *)
ValidationErrorReply(w, m) == [w |-> w, resp |-> NoReply, raised |-> TRUE]

(* a handle_device_message that takes every type but device_control as a
   notify *)
HandleDeviceMessageLenient(w, m, k) ==
    IF ~ValidEnvelope(m) THEN ValidationErrorReply(w, m)
    ELSE LET message == DriftMessage(m) IN
         IF message.type = "device_control" THEN HandleDeviceControl(w, message, k)
         ELSE HandleNotifyMessage(w, message, k)

(* handle_device_message *)
HandleDeviceMessage(w, m, k) ==
    IF ~ValidEnvelope(m) THEN ValidationErrorReply(w, m)
    ELSE LET message == DriftMessage(m) IN
         IF message.type = "notify" THEN HandleNotifyMessage(w, message, k)
         ELSE IF message.type = "device_control" THEN HandleDeviceControl(w, message, k)
         ELSE [w |-> w, resp |-> ErrMsg(message), raised |-> FALSE]

(* the frames a device sends *)
Frames(d) ==
    { Envelope("notify", "join", d, "p1", 0, AbsentData),
      Envelope("device_control", "power_off", d, "p1", 0, AbsentData),
      Envelope(Absent, "join", d, "p1", 0, AbsentData) }

AllFrames == UNION {Frames(d) : d \in Devices}

(* the frames of the dispatch specification: every branch of the dispatch,
   payloads at the boundaries of the stream parameters, deviceIds of the
   lengths 0, 1, 31, 32 and 33, and the id of another device *)
OtherDevice(d) == CHOOSE e \in Devices : e # d
ShortId == "d10000000000000000000000000000"
LongId == "d10000000000000000000000000000000"
DeviceFrames(d) ==
    { Envelope("notify", "join", d, "p1", 0, AbsentData),
      Envelope("notify", "join", "", "p1", 0, AbsentData),
      Envelope("notify", "join", "x", "p1", 0, AbsentData),
      Envelope("notify", "join", ShortId \o "0", "p1", 0, AbsentData),
      Envelope("notify", "join", LongId, "p1", 0, AbsentData),
      Envelope("notify", "start_rtmp", d, "p1", 1, AbsentData),
      Envelope("notify", "device_info", d, "p1", 0, [stream_res |-> JStr("1080P")]),
      Envelope("notify", "device_info", d, "p1", 0, [stream_res |-> JStr("8K")]),
      Envelope("notify", "device_info", d, "p1", 0, [stream_bitrate |-> JInt(4000000)]),
      Envelope("notify", "device_info", d, "p1", 0, [stream_bitrate |-> JInt(4000001)]),
      Envelope("notify", "device_info", d, "p1", 0, [stream_bitrate |-> JStr("fast")]),
      Envelope("notify", "device_info", OtherDevice(d), "p1", 0,
               [stream_res |-> JStr("WVGA")]),
      Envelope("device_control", "get_rtmp", d, "p1", 0, AbsentData),
      Envelope("device_control", "get_rtmp", OtherDevice(d), "p2", 0, AbsentData),
      Envelope("device_control", "get_rtmp", Absent, Absent, 0, AbsentData),
      Envelope("device_control", "get_screen", d, "p1", 0, AbsentData),
      Envelope("device_control", "power_off", d, "p1", 0, AbsentData),
      Envelope("device_control", "start_rtmp", d, "p1", 0, AbsentData),
      Envelope("device_control", "reboot", d, "p1", 0, AbsentData),
      Envelope("control", "start_rtmp", d, "p1", 0, AbsentData),
      Envelope("device_notify", "get_rtmp", d, "p1", 0, AbsentData),
      Envelope("message", "join", d, "p1", 0 - 1, AbsentData),
      Envelope(Absent, "join", d, "p1", 0, AbsentData) }
AllDeviceFrames == UNION {DeviceFrames(d) : d \in Devices}

(* the requests the cloud sends to /cloud-control *)
Requests == { Envelope("control", "start_rtmp", d, "p1", 0, AbsentData) : d \in Devices }


(* ------------------ drift_websocket_server.py --------------------- *)
(* settings.secret_key, and authenticate_device's test for a configured key *)
SecretKey == "your_secret key"
AuthConfigured == SecretKey # "" /\ SecretKey # "your-secret-key-here"

(* drift_websocket: between the TODO comment and connect there is no call of
   authenticate_device; the endpoint goes to connect with no result *)
AuthBeforeConnect == "unchecked"

(* connectionManager.connected *)
Connected(w, k) == k \in DOMAIN w.ac

(* an except clause that closes with the policy-violation code *)
ExceptPathPolicy(w, k, origin) ==
    LET d == DisconnectBegin(w, k, CloseTimeout, origin, "disconnect", <<>>)
    IN [w |-> d.w, pc |-> IF d.call.kind = "none" THEN "done" ELSE "call",
        call |-> d.call, ret |-> "except", rws |-> 0]

(* handle_connection_message: except Exception, disconnect with code 1011 *)
ExceptPath(w, k, origin) ==
    LET d == DisconnectBegin(w, k, CloseInternal, origin, "disconnect", <<>>)
    IN [w |-> d.w, pc |-> IF d.call.kind = "none" THEN "done" ELSE "call",
        call |-> d.call, ret |-> "except", rws |-> 0]

(* handle_connection_message: the head of the while loop, up to the await
   inside connectionManager.receive_message *)
LoopHead(w, c, k) ==
    IF ~Connected(w, k)
    THEN [w |-> w, pc |-> "done", call |-> NoCall, ret |-> "", rws |-> 0]
    ELSE IF w.cls[w.ac[k]] = DISCONNECTED
         THEN ExceptPath(w, k, c)
         ELSE [w |-> w, pc |-> "receive", call |-> NoCall, ret |-> "", rws |-> w.ac[k]]

(* a loop that starts the reply and goes on to the next receive *)
HandleFrameDetached(w, c, k, m) ==
    LET h == HandleDeviceMessage(w, m, k) IN
    IF h.raised THEN ExceptPath(h.w, k, c)
    ELSE IF h.resp # NoReply
         THEN LET sm == SendMessageBegin(h.w, k, h.resp) IN
              IF sm.call.kind = "none" THEN LoopHead(sm.w, c, k)
              ELSE [w |-> sm.w, pc |-> "receive", call |-> sm.call, ret |-> "reply",
                    rws |-> sm.call.ws]
         ELSE LoopHead(h.w, c, k)

(* handle_connection_message: one frame, from the return of receive_message
   to the next await *)
HandleFrame(w, c, k, m) ==
    LET h == HandleDeviceMessage(w, m, k) IN
    IF h.raised THEN ExceptPath(h.w, k, c)
    ELSE IF h.resp # NoReply
         THEN LET sm == SendMessageBegin(h.w, k, h.resp) IN
              IF sm.call.kind = "none" THEN LoopHead(sm.w, c, k)
              ELSE [w |-> sm.w, pc |-> "call", call |-> sm.call, ret |-> "reply",
                    rws |-> 0]
         ELSE LoopHead(h.w, c, k)

(* ------------------------- the monitor ---------------------------- *)
(* a test that adds the monitor's period to the timeout *)
ExpiredLate(diff) == diff > HeartbeatTimeout + MonitorInterval

(* time_diff > timedelta(seconds=settings.heartbeat_timeout) *)
Expired(diff) == diff > HeartbeatTimeout

(* _monitor_heartbeats: the scan that collects timeout_devices *)
RECURSIVE ScanFrom(_, _)
ScanFrom(ds, order) ==
    IF order = <<>> THEN <<>>
    ELSE (IF Expired(now - ds[Head(order)].last_heartbeat)
          THEN <<Head(order)>> ELSE <<>>) \o ScanFrom(ds, Tail(order))

(* _monitor_heartbeats: the loop over timeout_devices, up to the next await *)
RECURSIVE MonitorEvict(_, _, _)
MonitorEvict(w, list, seen) ==
    IF list = <<>> THEN [w |-> w, call |-> NoCall, rest |-> <<>>]
    ELSE LET d == DisconnectBegin(w, Head(list), CloseTimeout, seen[Head(list)],
                                  "disconnect", <<>>)
         IN IF d.call.kind = "none" THEN MonitorEvict(d.w, Tail(list), seen)
            ELSE [w |-> d.w, call |-> d.call, rest |-> Tail(list)]

(* start_heartbeat_monitor has no return statement *)
StartHeartbeatMonitorReturn == None

(* ---------------------------- Init -------------------------------- *)
IdleConn == [pc |-> "idle", dev |-> "", call |-> NoCall, ret |-> "", rws |-> 0,
             recvd |-> 0, auth |-> "unchecked"]
SleepFrom(t) == [pc |-> "sleep", wakeAt |-> t + MonitorInterval, call |-> NoCall,
                 rest |-> <<>>, seen |-> <<>>, marked |-> {}]

(* manager.py: the websockets of the room-indexed manager, a task that
   awaits nothing, an endpoint task before its connect, no broadcast yet *)
RoomSockets == 1..MaxMember
RoomNoCall == [kind |-> "none", key |-> "", ws |-> 0]
IdleMember == [pc |-> "idle", room |-> "", key |-> "", call |-> RoomNoCall, ret |-> ""]
IdleBroadcast == [pc |-> "idle", room |-> "", snapshot |-> {}, rest |-> <<>>,
                  call |-> RoomNoCall, attempted |-> {}, wrote |-> {}]

Init ==
    /\ active_connections = <<>>
    /\ device_status = <<>>
    /\ status_order = <<>>
    /\ heartbeat_monitor_task = None
    /\ application_state = [c \in Conns |-> CONNECTING]
    /\ client_state = [c \in Conns |-> CONNECTING]
    /\ now = 0
    /\ advances = 0
    /\ conn = [c \in Conns |-> IdleConn]
    /\ mon = [SleepFrom(0) EXCEPT !.pc = "off"]
    /\ ctl = [i \in Ctls |-> [pc |-> "idle", call |-> NoCall, sent |-> FALSE,
                              status |-> 0]]
    /\ app = "init"
    /\ lifespan_task = None
    /\ closes = [c \in Conns |-> <<>>]
    /\ sessions = {}
    /\ dupConnect = FALSE
    /\ discSince = [d \in Devices |-> FALSE]
    /\ ev = NoEvents
    /\ manager = [active_connections |-> <<>>, device_status |-> <<>>,
                  room_devices |-> <<>>]
    /\ rtask = [application_state |-> [c \in RoomSockets |-> CONNECTING],
                client_state |-> [c \in RoomSockets |-> CONNECTING],
                member |-> [c \in RoomSockets |-> IdleMember],
                bc |-> IdleBroadcast]

(* --------------------------- actions ------------------------------ *)
RegistryFrame == <<active_connections, device_status, status_order,
                   application_state, client_state, closes, sessions,
                   dupConnect, discSince, manager, rtask>>
TaskFrame == <<heartbeat_monitor_task, lifespan_task, app, now, advances, manager,
               rtask>>

(* lifespan, up to the yield *)
Startup ==
    /\ app = "init"
    /\ app' = "running"
    /\ heartbeat_monitor_task' = "task"
    /\ lifespan_task' = StartHeartbeatMonitorReturn
    /\ mon' = SleepFrom(now)
    /\ ev' = NoEvents
    /\ UNCHANGED <<now, advances, conn, ctl>>
    /\ UNCHANGED RegistryFrame

(* lifespan, after the yield; the server has ended its connections and its
   request handlers before it sends lifespan.shutdown *)
Shutdown ==
    /\ app = "running"
    /\ \A c \in Conns : conn[c].pc \in {"idle", "done"}
    /\ \A i \in Ctls : ctl[i].pc \in {"idle", "done"}
    /\ app' = "stopped"
    /\ mon' = IF lifespan_task # None /\ mon.pc \in {"sleep", "call"}
              THEN [mon EXCEPT !.pc = "cancelled", !.call = NoCall, !.rest = <<>>]
              ELSE mon
    /\ ev' = NoEvents
    /\ UNCHANGED <<heartbeat_monitor_task, lifespan_task, now, advances, conn, ctl>>
    /\ UNCHANGED RegistryFrame

(* the clock, read from startup on *)
Advance(d) ==
    /\ app = "running"
    /\ advances < MaxAdvance
    /\ now' = now + d
    /\ advances' = advances + 1
    /\ ev' = NoEvents
    /\ UNCHANGED <<heartbeat_monitor_task, lifespan_task, app, conn, mon, ctl>>
    /\ UNCHANGED RegistryFrame

(* a connection's task after a step; a task that has returned keeps nothing *)
ConnAfter(c, r) ==
    IF r.pc = "done" THEN [conn EXCEPT ![c] = [IdleConn EXCEPT !.pc = "done"]]
    ELSE [conn EXCEPT ![c].pc = r.pc, ![c].call = r.call, ![c].ret = r.ret,
                      ![c].rws = r.rws]

(* drift_websocket: a device opens websocket c with device_id d in the path.
   connect: websocket.accept() returns; register; send the connection
   acknowledgement, up to the await inside send_message *)
Connect(c, d) ==
    /\ app = "running"
    /\ conn[c].pc = "idle"
    /\ \A b \in Conns : b < c => conn[b].pc # "idle"
    /\ LET sm == ConnectRegister(World, c, d)
       IN /\ SetWorld(sm.w)
          /\ ev' = Events(sm.w, {}, {}, {})
          /\ conn' = [conn EXCEPT ![c].pc = "call", ![c].dev = d,
                                  ![c].call = sm.call, ![c].ret = "join",
                                  ![c].auth = AuthBeforeConnect]
    /\ UNCHANGED <<mon, ctl>>
    /\ UNCHANGED TaskFrame

(* the send_json or close a connection's task awaits completes *)
ConnCallDone(c, ok) ==
    /\ conn[c].pc = "call"
    /\ ok \in Outcomes(World, conn[c].call)
    /\ LET r == ResumeCall(World, conn[c].call, ok)
           n == IF r.call.kind # "none"
                THEN [w |-> r.w, pc |-> "call", call |-> r.call, ret |-> conn[c].ret,
                      rws |-> 0]
                ELSE IF conn[c].ret = "except" \/ r.raised
                     THEN [w |-> r.w, pc |-> "done", call |-> NoCall,
                           ret |-> "except", rws |-> 0]
                     ELSE LoopHead(r.w, c, conn[c].dev)
       IN /\ SetWorld(n.w)
          /\ ev' = Events(n.w, {}, {}, {})
          /\ conn' = ConnAfter(c, n)
    /\ UNCHANGED <<mon, ctl>>
    /\ UNCHANGED TaskFrame

(* a receive that hands out frames whatever the websocket's state *)
ReadableAlways(ws) == TRUE

(* receive_message can return a frame: the websocket is open on both sides *)
Readable(ws) == client_state[ws] = CONNECTED /\ application_state[ws] = CONNECTED

(* receive_message returns frame m; it is handled up to the next await *)
Dispatch(c, m) ==
    /\ conn[c].pc = "receive"
    /\ LET ws == conn[c].rws
           k == conn[c].dev
       IN /\ Readable(ws)
          /\ LET h == HandleDeviceMessage(World, m, k)
                 n == HandleFrame(World, c, k, m)
             IN /\ SetWorld(n.w)
                /\ ev' = Events(n.w, {[conn |-> c, key |-> k, ws |-> ws, frame |-> m,
                                       valid |-> ValidEnvelope(m),
                                       registered |-> k \in DOMAIN active_connections,
                                       prior |-> GetDeviceStatus(World, k).device_info,
                                       resp |-> h.resp, raised |-> h.raised]}, {}, {})
                /\ conn' = [ConnAfter(c, n) EXCEPT
                              ![c].recvd = IF n.pc = "done" THEN 0 ELSE @ + 1]
    /\ UNCHANGED <<mon, ctl>>
    /\ UNCHANGED TaskFrame

(* a device sends one of its frames *)
Receive(c, m) ==
    /\ conn[c].recvd < MaxRecv
    /\ m \in Frames(conn[c].dev)
    /\ Dispatch(c, m)

(* receive_message raises: the device has closed or dropped the websocket, or
   the server has closed it *)
ReceiveDisconnect(c) ==
    /\ conn[c].pc = "receive"
    /\ LET ws == conn[c].rws
       IN /\ LET w1 == [World EXCEPT !.cls[ws] = DISCONNECTED]
                 n == ExceptPath(w1, conn[c].dev, c)
             IN /\ SetWorld(n.w)
                /\ ev' = Events(n.w, {}, {}, {})
                /\ conn' = ConnAfter(c, n)
    /\ UNCHANGED <<mon, ctl>>
    /\ UNCHANGED TaskFrame

(* the monitor after a run of its eviction loop: suspended in a close, or
   back in its sleep *)
MonAfter(r, seen, marked) ==
    IF r.call.kind = "none" THEN SleepFrom(now)
    ELSE [pc |-> "call", wakeAt |-> mon.wakeAt, call |-> r.call, rest |-> r.rest,
          seen |-> seen, marked |-> marked]

(* _monitor_heartbeats: the sleep ends; scan, then evict up to the next await *)
MonitorTick ==
    /\ mon.pc = "sleep"
    /\ now >= mon.wakeAt
    /\ LET timeout_devices == ScanFrom(device_status, status_order)
           marked == {active_connections[timeout_devices[i]] :
                        i \in 1..Len(timeout_devices)}
           r == MonitorEvict(World, timeout_devices, active_connections)
       IN /\ SetWorld(r.w)
          /\ mon' = MonAfter(r, active_connections, marked)
          /\ ev' = Events(r.w, {},
                          {[diff |-> [k \in DOMAIN device_status |->
                                        now - device_status[k].last_heartbeat],
                            timeout_devices |-> timeout_devices]},
                          IF r.call.kind = "none" THEN {marked} ELSE {})
    /\ UNCHANGED <<conn, ctl>>
    /\ UNCHANGED TaskFrame

(* _monitor_heartbeats: the close of an eviction completes *)
MonitorCallDone(ok) ==
    /\ mon.pc = "call"
    /\ ok \in Outcomes(World, mon.call)
    /\ LET r == ResumeCall(World, mon.call, ok)
           e == MonitorEvict(r.w, mon.rest, mon.seen)
       IN IF r.raised
          THEN /\ SetWorld(r.w)
               /\ ev' = Events(r.w, {}, {}, {})
               /\ mon' = [mon EXCEPT !.pc = "failed", !.call = NoCall]
          ELSE /\ SetWorld(e.w)
               /\ ev' = Events(e.w, {}, {},
                               IF e.call.kind = "none" THEN {mon.marked} ELSE {})
               /\ mon' = MonAfter(e, mon.seen, mon.marked)
    /\ UNCHANGED <<conn, ctl>>
    /\ UNCHANGED TaskFrame

(* drift_cloud_control_handler: the HTTP status of the response; the value
   send_message returned is dropped, return msg.model_dump() gives 200
   whenever DriftMessage of the request did not raise, HTTPException 500
   otherwise *)
ResponseStatus(valid, sent) == IF valid THEN 200 ELSE 500

(* a handler that forwards the validated model's dump *)
ForwardModelDump(request) == DriftMessage(request)

(* drift_cloud_control_handler: send_message(msg.deviceId, request) passes
   the request dict itself *)
ForwardBody(request) == request

(* drift_cloud_control_handler, up to the await inside send_message *)
CloudControl(i, request) ==
    /\ app = "running"
    /\ ctl[i].pc = "idle"
    /\ \A j \in Ctls : j < i => ctl[j].pc # "idle"
    /\ request \in Requests
    /\ LET sm == IF ValidEnvelope(request)
                 THEN SendMessageBegin(World, DriftMessage(request).deviceId,
                                       ForwardBody(request))
                 ELSE [w |-> World, call |-> NoCall]
       IN /\ SetWorld(sm.w)
          /\ ev' = Events(sm.w, {}, {}, {})
          /\ ctl' = [ctl EXCEPT ![i].pc = IF sm.call.kind = "none" THEN "done"
                                          ELSE "call",
                                ![i].call = sm.call,
                                ![i].status = IF sm.call.kind # "none" THEN 0
                                              ELSE ResponseStatus(ValidEnvelope(request),
                                                                  FALSE)]
    /\ UNCHANGED <<conn, mon>>
    /\ UNCHANGED TaskFrame

(* drift_cloud_control_handler: the awaited send_json or close completes *)
CloudCallDone(i, ok) ==
    /\ ctl[i].pc = "call"
    /\ ok \in Outcomes(World, ctl[i].call)
    /\ LET r == ResumeCall(World, ctl[i].call, ok)
       IN /\ SetWorld(r.w)
          /\ ev' = Events(r.w, {}, {}, {})
          /\ ctl' = [ctl EXCEPT ![i].pc = IF r.call.kind = "none" THEN "done" ELSE "call",
                                ![i].call = r.call,
                                ![i].sent = r.call.kind = "none" /\ r.res,
                                ![i].status = IF r.call.kind # "none" THEN 0
                                              ELSE ResponseStatus(TRUE, r.res)]
    /\ UNCHANGED <<conn, mon>>
    /\ UNCHANGED TaskFrame

Next ==
    \/ Startup
    \/ Shutdown
    \/ \E d \in Deltas : Advance(d)
    \/ \E c \in Conns, d \in Devices : Connect(c, d)
    \/ \E c \in Conns, ok \in BOOLEAN : ConnCallDone(c, ok)
    \/ \E c \in Conns, m \in AllFrames : Receive(c, m)
    \/ \E c \in Conns : ReceiveDisconnect(c)
    \/ MonitorTick
    \/ \E ok \in BOOLEAN : MonitorCallDone(ok)
    \/ \E i \in Ctls, request \in Requests : CloudControl(i, request)
    \/ \E i \in Ctls, ok \in BOOLEAN : CloudCallDone(i, ok)

Spec == Init /\ [][Next]_vars

(* ------------------- the dispatch specification ------------------- *)
(* the receive loops alone, with devices that send any frame of
   DeviceFrames, up to MaxSeq frames over the connections that are open *)
RECURSIVE FramesSent(_)
FramesSent(n) == IF n = 0 THEN 0 ELSE conn[n].recvd + FramesSent(n - 1)

DeviceSends(c, m) ==
    /\ conn[c].pc = "receive"
    /\ FramesSent(MaxConn) < MaxSeq
    /\ m \in DeviceFrames(conn[c].dev)
    /\ Dispatch(c, m)

NextDispatch ==
    \/ Startup
    \/ \E d \in Deltas : Advance(d)
    \/ \E c \in Conns, d \in Devices : Connect(c, d)
    \/ \E c \in Conns, ok \in BOOLEAN : ConnCallDone(c, ok)
    \/ \E c \in Conns, m \in AllDeviceFrames : DeviceSends(c, m)
    \/ \E c \in Conns : ReceiveDisconnect(c)

SpecDispatch == Init /\ [][NextDispatch]_vars

(* --------------------- the timed specification -------------------- *)
(* the clock in seconds: it advances by one monitor period or, up to
   MaxAdvance times, by one second; asyncio.sleep(60) ends when it is due,
   so the clock does not pass the monitor's wake-up time while it sleeps;
   a send_json or a close that a task awaits may take time *)
Elapse(d) ==
    /\ app = "running"
    /\ d = 1 => advances < MaxAdvance
    /\ now + d <= Horizon
    /\ mon.pc = "sleep" => now + d <= mon.wakeAt
    /\ now' = now + d
    /\ advances' = IF d = 1 THEN advances + 1 ELSE advances
    /\ ev' = NoEvents
    /\ UNCHANGED <<heartbeat_monitor_task, lifespan_task, app, conn, mon, ctl>>
    /\ UNCHANGED RegistryFrame

NextTimed ==
    \/ Startup
    \/ \E d \in {1, MonitorInterval} : Elapse(d)
    \/ \E c \in Conns, d \in Devices : Connect(c, d)
    \/ \E c \in Conns, ok \in BOOLEAN : ConnCallDone(c, ok)
    \/ \E c \in Conns, m \in AllFrames : Receive(c, m)
    \/ \E c \in Conns : ReceiveDisconnect(c)
    \/ MonitorTick
    \/ \E ok \in BOOLEAN : MonitorCallDone(ok)

SpecTimed == Init /\ [][NextTimed]_vars

(* -------------------- the specification with fairness ------------- *)
(* a connection's task waits in receive_message on a websocket that is
   closed: the ASGI server delivers websocket.disconnect, or Starlette
   refuses the receive, and the call raises *)
ReceiveOnClosed(c) ==
    /\ conn[c].pc = "receive"
    /\ \/ client_state[conn[c].rws] = DISCONNECTED
       \/ application_state[conn[c].rws] = DISCONNECTED

(* a connection's task awaits a send_json or a close *)
InCall(c) == conn[c].pc = "call"

(* weak fairness of ConnCallDone and of ReceiveDisconnect on a closed
   websocket, with the enabling conditions written out: the event loop
   resumes a task whose send_json or close has completed (the step that
   changes the task while it is in a call is ConnCallDone), and a receive
   on a closed websocket returns (the step that changes the task then is
   ReceiveDisconnect); nothing is assumed of a device whose websocket is
   open *)
Fairness ==
    \A c \in Conns :
        /\ []<>(~InCall(c)) \/ []<><<InCall(c) /\ conn'[c] # conn[c]>>_vars
        /\ []<>(~ReceiveOnClosed(c))
               \/ []<><<ReceiveOnClosed(c) /\ conn'[c] # conn[c]>>_vars

(* the connections and the monitor, without the cloud-control ingress and
   the shutdown *)
NextLive ==
    \/ Startup
    \/ \E d \in Deltas : Advance(d)
    \/ \E c \in Conns, d \in Devices : Connect(c, d)
    \/ \E c \in Conns, ok \in BOOLEAN : ConnCallDone(c, ok)
    \/ \E c \in Conns, m \in AllFrames : Receive(c, m)
    \/ \E c \in Conns : ReceiveDisconnect(c)
    \/ MonitorTick
    \/ \E ok \in BOOLEAN : MonitorCallDone(ok)

SpecLive == Init /\ [][NextLive]_vars /\ Fairness

(* --------------- manager.py: the room-indexed manager ------------- *)
(* the path parameters <<room_id, device_sn, device_id>> a device connects
   with; the ids are free text of the path and may hold a colon *)
RoomRequests == { <<"r1", "cc", "d">>, <<"r1", "aa:bb", "d">>, <<"r1:aa", "bb", "d">> }
RoomIds == {q[1] : q \in RoomRequests}

(* connection_id = f"{room_id}:{device_sn}:{device_id}" *)
ConnectionId(room_id, device_sn, device_id) ==
    room_id \o ":" \o device_sn \o ":" \o device_id

RoomKeys == {ConnectionId(q[1], q[2], q[3]) : q \in RoomRequests}

(* manager.py's DeviceStatus, the fields that say whose session it is *)
RoomDeviceStatus(room_id, device_sn, device_id) ==
    [room_id |-> room_id, device_sn |-> device_sn, device_id |-> device_id]

(* the manager and its websockets as one value *)
RoomWorld == [ac |-> manager.active_connections, ds |-> manager.device_status,
              rd |-> manager.room_devices, aps |-> rtask.application_state,
              cls |-> rtask.client_state]

(* _cleanup_connection *)
RoomCleanup(m, k) ==
    [m EXCEPT !.ac = Remove(m.ac, k),
              !.rd = IF k \in DOMAIN m.ds /\ m.ds[k].room_id \in DOMAIN m.rd
                     THEN [m.rd EXCEPT ![m.ds[k].room_id] = @ \ {k}]
                     ELSE m.rd,
              !.ds = Remove(m.ds, k)]

(* disconnect, from the call to its return or to the await of websocket.close *)
RoomDisconnectBegin(m, k) ==
    IF k \notin DOMAIN m.ac THEN [m |-> m, call |-> RoomNoCall]
    ELSE LET ws == m.ac[k] IN
         IF m.cls[ws] # DISCONNECTED /\ m.aps[ws] # DISCONNECTED
         THEN [m |-> [m EXCEPT !.aps[ws] = DISCONNECTED],
               call |-> [kind |-> "close", key |-> k, ws |-> ws]]
         ELSE [m |-> RoomCleanup(m, k), call |-> RoomNoCall]

(* send_message, from the call to the await of websocket.send_json *)
RoomSendBegin(m, k) ==
    IF k \in DOMAIN m.ac
    THEN [m |-> m, call |-> [kind |-> "send", key |-> k, ws |-> m.ac[k]]]
    ELSE [m |-> m, call |-> RoomNoCall]

(* the awaited send_json or close completes (ok) or raises: send_message's
   except clause calls disconnect, disconnect's finally clause cleans up *)
RoomResume(m, call, ok) ==
    IF call.kind = "send"
    THEN IF ok THEN [m |-> m, call |-> RoomNoCall]
         ELSE RoomDisconnectBegin([m EXCEPT !.aps[call.ws] = DISCONNECTED], call.key)
    ELSE [m |-> RoomCleanup(m, call.key), call |-> RoomNoCall]

RoomOutcomes(m, call) ==
    {ok \in BOOLEAN : ok /\ call.kind = "send" => m.aps[call.ws] = CONNECTED}

(* connect, from the return of websocket.accept to the await inside the
   send_message of the connection acknowledgement *)
RoomConnectRegister(m, ws, room_id, device_sn, device_id) ==
    LET k == ConnectionId(room_id, device_sn, device_id)
        rd0 == IF room_id \notin DOMAIN m.rd THEN Put(m.rd, room_id, {}) ELSE m.rd
        m1 == [m EXCEPT !.aps[ws] = CONNECTED, !.cls[ws] = CONNECTED,
                        !.ac = Put(m.ac, k, ws),
                        !.ds = Put(m.ds, k, RoomDeviceStatus(room_id, device_sn,
                                                            device_id)),
                        !.rd = [rd0 EXCEPT ![room_id] = @ \cup {k}]]
    IN RoomSendBegin(m1, k)

(* broadcast_to_room's loop from one await to the next: send_message on each
   remaining key of the list, up to the first that suspends in send_json *)
RECURSIVE BroadcastFrom(_, _, _)
BroadcastFrom(m, rest, b) ==
    IF rest = <<>>
    THEN [b EXCEPT !.pc = "done", !.rest = <<>>, !.call = RoomNoCall]
    ELSE LET sm == RoomSendBegin(m, Head(rest))
             b1 == [b EXCEPT !.attempted = @ \cup {Head(rest)}]
         IN IF sm.call.kind = "none"
            THEN BroadcastFrom(m, Tail(rest), b1)
            ELSE [b1 EXCEPT !.pc = "call", !.rest = Tail(rest), !.call = sm.call]

(* the orders in which list(set) can give the keys of a set *)
RECURSIVE ListsOf(_)
ListsOf(S) ==
    IF S = {} THEN {<<>>}
    ELSE UNION {{<<x>> \o l : l \in ListsOf(S \ {x})} : x \in S}

MainFrame == <<active_connections, device_status, status_order,
               heartbeat_monitor_task, application_state, client_state, now,
               advances, conn, mon, ctl, app, lifespan_task, closes, sessions,
               dupConnect, discSince, ev>>

SetRoomWorld(m, member, bc) ==
    /\ manager' = [active_connections |-> m.ac, device_status |-> m.ds,
                   room_devices |-> m.rd]
    /\ rtask' = [application_state |-> m.aps, client_state |-> m.cls,
                 member |-> member, bc |-> bc]
    /\ UNCHANGED MainFrame

(* drift_websocket: a device opens websocket c with the path parameters q *)
RoomConnect(c, q) ==
    /\ rtask.member[c].pc = "idle"
    /\ \A b \in RoomSockets : b < c => rtask.member[b].pc # "idle"
    /\ LET sm == RoomConnectRegister(RoomWorld, c, q[1], q[2], q[3])
       IN SetRoomWorld(sm.m,
                       [rtask.member EXCEPT
                          ![c] = [pc |-> "call", room |-> q[1],
                                  key |-> ConnectionId(q[1], q[2], q[3]),
                                  call |-> sm.call, ret |-> "join"]],
                       rtask.bc)

(* the send_json or close an endpoint task awaits completes: connect
   returns and the task waits in receive_json, or the disconnect of the
   except clause returns and the task ends *)
RoomCallDone(c, ok) ==
    /\ rtask.member[c].pc = "call"
    /\ ok \in RoomOutcomes(RoomWorld, rtask.member[c].call)
    /\ LET r == RoomResume(RoomWorld, rtask.member[c].call, ok)
       IN SetRoomWorld(r.m,
                       [rtask.member EXCEPT
                          ![c].call = r.call,
                          ![c].pc = IF r.call.kind # "none" THEN "call"
                                    ELSE IF rtask.member[c].ret = "join" THEN "open"
                                    ELSE "done"],
                       rtask.bc)

(* receive_json raises WebSocketDisconnect: disconnect(connection_id) *)
RoomDisconnect(c) ==
    /\ rtask.member[c].pc = "open"
    /\ LET m1 == [RoomWorld EXCEPT !.cls[c] = DISCONNECTED]
           d == RoomDisconnectBegin(m1, rtask.member[c].key)
       IN SetRoomWorld(d.m,
                       [rtask.member EXCEPT
                          ![c].call = d.call, ![c].ret = "except",
                          ![c].pc = IF d.call.kind # "none" THEN "call" ELSE "done"],
                       rtask.bc)

(* broadcast_to_room(room_id, message) is called *)
RoomBroadcast(room_id) ==
    /\ rtask.bc.pc = "idle"
    /\ \E c \in RoomSockets : rtask.member[c].pc # "idle"
    /\ LET snap == IF room_id \in DOMAIN manager.room_devices
                   THEN manager.room_devices[room_id] ELSE {}
       IN \E l \in ListsOf(snap) :
             SetRoomWorld(RoomWorld, rtask.member,
                          BroadcastFrom(RoomWorld, l,
                                        [IdleBroadcast EXCEPT !.room = room_id,
                                                              !.snapshot = snap]))

(* the send_json, or the close after a failed send_json, that the broadcast
   awaits completes; send_message returns and the loop goes on *)
RoomBroadcastCallDone(ok) ==
    /\ rtask.bc.pc = "call"
    /\ ok \in RoomOutcomes(RoomWorld, rtask.bc.call)
    /\ LET call == rtask.bc.call
           r == RoomResume(RoomWorld, call, ok)
           b == IF call.kind = "send" /\ ok
                THEN [rtask.bc EXCEPT !.wrote = @ \cup {[key |-> call.key,
                                                        ws |-> call.ws]}]
                ELSE rtask.bc
       IN SetRoomWorld(r.m, rtask.member,
                       IF r.call.kind # "none" THEN [b EXCEPT !.call = r.call]
                       ELSE BroadcastFrom(r.m, b.rest, b))

NextRoom ==
    \/ \E c \in RoomSockets, q \in RoomRequests : RoomConnect(c, q)
    \/ \E c \in RoomSockets, ok \in BOOLEAN : RoomCallDone(c, ok)
    \/ \E c \in RoomSockets : RoomDisconnect(c)
    \/ \E r \in RoomIds : RoomBroadcast(r)
    \/ \E ok \in BOOLEAN : RoomBroadcastCallDone(ok)

SpecRoom == Init /\ [][NextRoom]_vars

(* ------------------------------ claims ---------------------------- *)
Registered == {active_connections[k] : k \in DOMAIN active_connections}

(* C1: as long as no connect has used a key that was registered at the time,
   the registry holds exactly one session per connected device: the two
   dictionaries have the same keys, the stored websockets are those of the
   sessions connected and not yet removed, one key each, and
   get_online_devices lists as many entries as there are such sessions,
   one per registered key. *)
C1_OneSessionPerDevice ==
    ~dupConnect =>
        /\ DOMAIN active_connections = DOMAIN device_status
        /\ Registered = sessions
        /\ Cardinality(sessions) = Cardinality(DOMAIN active_connections)
        /\ Len(GetOnlineDevices) = Cardinality(sessions)
        /\ {GetOnlineDevices[i].device_id : i \in 1..Len(GetOnlineDevices)}
               = DOMAIN active_connections

(* one device has connected and been disconnected, another is connected *)
C1_Witness ==
    /\ ~dupConnect
    /\ Cardinality(sessions) = 1
    /\ Len(GetOnlineDevices) = 1
    /\ \E d \in Devices : discSince[d] /\ d \notin DOMAIN active_connections

(* C2: a disconnect called on a key after an earlier disconnect on that key
   has returned, with no connect for the key in between, changes neither the
   registry nor any websocket, issues no close and does not raise. *)
C2_SecondDisconnectNoOp ==
    \A r \in ev.discs :
        r.prior => ~r.registered /\ ~r.changed /\ ~r.closed /\ ~r.raised

(* a second disconnect on a key has returned *)
C2_Witness == \E r \in ev.discs : r.prior /\ ~r.changed

(* C3: with heartbeat_timeout 180, the monitor's scan collects every key whose
   last_heartbeat lies 181 s before the tick's now and no key whose
   last_heartbeat lies 179 s before it; a key at 179 s is still registered
   when the tick first suspends and the tick has called no disconnect on it;
   when the tick's eviction loop has ended, no websocket of a collected key
   is registered any more. *)
C3_TimeoutBoundary ==
    /\ \A s \in ev.scan : \A k \in DOMAIN s.diff :
          LET marked == \E i \in 1..Len(s.timeout_devices) : s.timeout_devices[i] = k
          IN /\ s.diff[k] = HeartbeatTimeout + 1 => marked
             /\ s.diff[k] = HeartbeatTimeout - 1 =>
                   /\ ~marked
                   /\ k \in DOMAIN active_connections
                   /\ \A r \in ev.discs : r.key # k
    /\ \A m \in ev.tickEnd : m \cap Registered = {}

(* a tick that had collected a session ends, the session evicted *)
C3_Witness == \E m \in ev.tickEnd : m # {} /\ m \cap Registered = {}

(* C4: when the acknowledgement of a device_control/power_off request has been
   sent, the session of the device has been removed from the registry and
   its websocket has been closed. *)
C4_PowerOffTearsDown ==
    \A r \in ev.sends :
        r.msg.type = "device_notify" /\ r.msg.event = "power_off" =>
            /\ r.key \notin DOMAIN active_connections
            /\ r.key \notin DOMAIN device_status
            /\ application_state[r.ws] = DISCONNECTED

(* C5: for a frame whose type or event is missing or outside the
   enumerations, received from a registered device, handle_device_message
   returns a reply with a non-zero code, and after the frame the session is
   still registered and its websocket open. *)
C5_MalformedFrameKeepsSession ==
    \A h \in ev.handled :
        ~h.valid /\ h.registered =>
            /\ ~h.raised
            /\ h.resp # NoReply
            /\ h.resp.code # 0
            /\ h.key \in DOMAIN active_connections
            /\ active_connections[h.key] = h.ws
            /\ application_state[h.ws] = CONNECTED

(* C6: a send_message whose write raised returns False, has called disconnect
   on its key, and the key is registered no more when it returns; one whose
   write succeeded returns True and leaves the registry as it is; one on an
   unregistered key returns False and changes nothing. *)
C6_SendMessageResult ==
    \A r \in ev.sends :
        /\ r.registered /\ ~r.wrote =>
              /\ ~r.result
              /\ ~r.present
              /\ \E d \in ev.discs : d.key = r.key
        /\ r.wrote => r.registered /\ r.result /\ ~r.regChanged
        /\ ~r.registered => ~r.wrote /\ ~r.result /\ ~r.regChanged

(* a send_message whose write raised has returned *)
C6_Witness == \E r \in ev.sends : r.registered /\ ~r.wrote /\ ~r.result /\ ~r.present

(* C7: a disconnect on a registered key returns with the key removed from both
   dictionaries, also when websocket.close raised, and does not raise; a
   close is issued only on a websocket of which neither state was
   DISCONNECTED. *)
C7_DisconnectAlwaysCleans ==
    /\ \A r \in ev.discs : r.registered => ~r.present /\ ~r.raised
    /\ \A ws \in Conns : \A i \in 1..Len(closes[ws]) :
          /\ closes[ws][i].client_state # DISCONNECTED
          /\ closes[ws][i].application_state # DISCONNECTED

(* a disconnect whose close raised has returned *)
C7_Witness ==
    \E r \in ev.discs : r.registered /\ r.closed /\ r.closeRaised /\ ~r.present

(* C8: over every interleaving, also when no connect ever replaces a
   registered key, a websocket is closed at most once, a close comes only
   from the teardown of the session that owns the websocket, and a session
   that has been removed has had its websocket closed. *)
C8_ClosedOnceByOwner ==
    ~dupConnect =>
        \A ws \in Conns :
            /\ Len(closes[ws]) <= 1
            /\ \A i \in 1..Len(closes[ws]) : closes[ws][i].origin = ws

(* C9: a connect on a key that is registered does not replace the stored
   session: no connect has overwritten a registered key, and every session
   registered and not removed is still the one stored. *)
C9_NoReplacement == ~dupConnect /\ sessions \subseteq Registered

(* C10: when lifespan's shutdown part has run, the heartbeat monitor task is
   cancelled. *)
C10_MonitorCancelled == app = "stopped" => mon.pc = "cancelled"


(* C11: while the monitor runs, a session that is registered and whose
   websocket the server has not begun to close has had a heartbeat within
   the last heartbeat_timeout plus one monitor period: no session stays
   untouched beyond t + 180 s + 60 s. *)
C11_EvictionBound ==
    mon.pc \in {"sleep", "call"} =>
        \A k \in DOMAIN active_connections :
            /\ k \in DOMAIN device_status
            /\ application_state[active_connections[k]] = CONNECTED
            => now - device_status[k].last_heartbeat
                   <= HeartbeatTimeout + MonitorInterval

(* C12: a connection's loop dispatches a frame only when it is suspended in
   receive_message with no send of its own pending: the reply to the frame
   before, if any, has been written (or has failed) before the next frame
   is dispatched, so two frames of one connection are never in dispatch at
   once and replies leave in the order of their requests. *)
C12_OneFrameAtATime ==
    [][\A c \in Conns :
          conn'[c].recvd > conn[c].recvd =>
              /\ conn[c].pc = "receive"
              /\ conn[c].call.kind = "none"
              /\ conn'[c].recvd = conn[c].recvd + 1]_vars

(* a connection has had its second frame dispatched *)
C12_Witness == \E c \in Conns : conn[c].recvd = 2 /\ ev.handled # {}

(* C13: a step of the task of a connection of device A (a frame handled, also
   one that fails validation or carries another deviceId, a reply sent, a
   disconnect) leaves the entry of every other registered device B as it
   is: its websocket, its DeviceStatus and the two states of the
   websocket. *)
C13_OtherDevicesUntouched ==
    [][\A c \in Conns :
          conn[c].pc \in {"receive", "call"} /\ conn'[c] # conn[c] =>
              \A b \in DOMAIN active_connections \ {conn[c].dev} :
                  /\ b \in DOMAIN active_connections'
                  /\ active_connections'[b] = active_connections[b]
                  /\ b \in DOMAIN device_status'
                  /\ device_status'[b] = device_status[b]
                  /\ application_state'[active_connections[b]]
                         = application_state[active_connections[b]]
                  /\ client_state'[active_connections[b]]
                         = client_state[active_connections[b]]]_vars

(* a device_info frame that carries the id of another registered device has
   been handled *)
C13_Witness ==
    \E h \in ev.handled : \E b \in DOMAIN active_connections :
        /\ b # h.key
        /\ h.frame.deviceId = b
        /\ h.frame.event = "device_info"
        /\ h.valid

(* C14: after a notify/device_info frame with stream_res "1080P" from a
   registered device, the stored device_info has stream_res "1080P" and the
   handler has returned a reply with code 0. *)
C14_DeviceInfoAck ==
    \A h \in ev.handled :
        /\ h.registered /\ h.valid
        /\ h.frame.type = "notify" /\ h.frame.event = "device_info"
        /\ h.frame.data = [stream_res |-> JStr("1080P")]
        => /\ h.key \in DOMAIN device_status
           /\ device_status[h.key].device_info.stream_res = "1080P"
           /\ h.resp # NoReply
           /\ h.resp.code = 0

(* C15: a device_control/get_rtmp frame on a registered session with no
   device_info gets the device_notify reply with code 0 and the defaults
   720P, 2000000 and 30. *)
C15_GetRtmpDefaults ==
    \A h \in ev.handled :
        /\ h.registered /\ h.valid
        /\ h.frame.type = "device_control" /\ h.frame.event = "get_rtmp"
        /\ h.key \in DOMAIN device_status
        /\ device_status[h.key].device_info = NoInfo
        => /\ h.resp.type = "device_notify"
           /\ h.resp.code = 0
           /\ h.resp.data.stream_res = "720P"
           /\ h.resp.data.stream_bitrate = 2000000
           /\ h.resp.data.stream_framerate = 30

(* a get_rtmp on a session without device_info has been answered *)
C15_Witness ==
    \E h \in ev.handled :
        /\ h.registered /\ h.valid
        /\ h.frame.type = "device_control" /\ h.frame.event = "get_rtmp"
        /\ h.key \in DOMAIN device_status
        /\ device_status[h.key].device_info = NoInfo
        /\ h.resp.code = 0

(* C16: every reply to a get_rtmp request, the device_notify one and the
   error one, carries the deviceId and the playId of the request. *)
C16_GetRtmpEchoesIds ==
    \A h \in ev.handled :
        /\ h.valid
        /\ h.frame.type = "device_control" /\ h.frame.event = "get_rtmp"
        /\ h.resp # NoReply
        => /\ h.resp.deviceId = DriftMessage(h.frame).deviceId
           /\ h.resp.playId = DriftMessage(h.frame).playId

(* a get_rtmp has been answered with the error reply, ids given *)
C16_Witness ==
    \E h \in ev.handled :
        /\ h.valid
        /\ h.frame.type = "device_control" /\ h.frame.event = "get_rtmp"
        /\ h.resp.code = 0 - 1
        /\ h.resp.deviceId # "" /\ h.resp.playId # ""

(* C17: a device_control frame whose event is none of get_rtmp, get_screen,
   power_off gets a reply with code -1 that carries an error message. *)
C17_UnknownControlEvent ==
    \A h \in ev.handled :
        /\ h.registered
        /\ h.frame.type = "device_control"
        /\ h.frame.event \notin {"get_rtmp", "get_screen", "power_off"}
        /\ ValidateDeviceId(DriftMessage(h.frame).deviceId)
        => /\ ~h.raised
           /\ h.resp # NoReply
           /\ h.resp.code = 0 - 1
           /\ h.resp.data # EmptyData

(* C18: DriftMessage accepts a frame with valid type and event exactly when
   the deviceId it carries has length 32. *)
C18_DeviceIdLength ==
    \A h \in ev.handled :
        /\ h.frame.type \in DriftMsgType
        /\ h.frame.event \in DriftEvent
        /\ h.frame.deviceId # Absent
        => (h.valid <=> Len(h.frame.deviceId) = 32)

(* C19: a device_info with stream_bitrate 4000000 is stored, one with a
   larger stream_bitrate is rejected, and no stored device_info has a
   stream_bitrate above 4000000. *)
C19_BitrateCeiling ==
    /\ \A k \in DOMAIN device_status :
          device_status[k].device_info.stream_bitrate <= 4000000
    /\ \A h \in ev.handled :
          /\ h.registered /\ h.valid
          /\ h.frame.type = "notify" /\ h.frame.event = "device_info"
          /\ h.frame.data = [stream_bitrate |-> JInt(4000000)]
          => /\ h.key \in DOMAIN device_status
             /\ device_status[h.key].device_info.stream_bitrate = 4000000

(* C20: a device_info is stored only when its stream_res is a member of
   Resolution: no stored device_info has another stream_res. *)
C20_ResolutionEnum ==
    \A k \in DOMAIN device_status :
        device_status[k].device_info # NoInfo =>
            device_status[k].device_info.stream_res \in Resolution

(* C21: a cloud-control request with a valid control envelope addressed to a
   registered deviceId starts one send_message of the request itself on the
   websocket registered for that deviceId; the handler's steps return one
   send_message record in all, for that key and that message, a write that
   succeeded went to that websocket, and a request to an unregistered
   deviceId writes nothing. *)
C21_ControlForwardedVerbatim ==
    [][\A i \in Ctls :
          ctl'[i] # ctl[i] =>
              /\ ctl[i].pc = "idle" /\ ctl'[i].pc = "call" =>
                    /\ ctl'[i].call.kind = "send"
                    /\ ctl'[i].call.msg \in Requests
                    /\ ctl'[i].call.key = ctl'[i].call.msg.deviceId
                    /\ ctl'[i].call.key \in DOMAIN active_connections
                    /\ ctl'[i].call.ws = active_connections[ctl'[i].call.key]
                    /\ ev'.sends = {}
              /\ ctl[i].pc = "idle" /\ ctl'[i].pc = "done" =>
                    /\ Cardinality(ev'.sends) = 1
                    /\ \A r \in ev'.sends :
                          ~r.registered /\ ~r.wrote /\ r.msg \in Requests
                          /\ r.key = r.msg.deviceId
                          /\ r.key \notin DOMAIN active_connections
              /\ ctl[i].pc = "call" =>
                    /\ \A r \in ev'.sends :
                          /\ r.msg = ctl[i].call.msg
                          /\ r.key = ctl[i].call.key
                          /\ r.wrote => /\ ctl[i].call.kind = "send"
                                        /\ r.ws = ctl[i].call.ws
                    /\ ctl'[i].pc = "done" => Cardinality(ev'.sends) = 1
                    /\ ctl'[i].pc = "call" => ev'.sends = {}]_vars

(* a cloud-control request has been written to the device's websocket *)
C21_Witness ==
    \E r \in ev.sends :
        /\ r.msg.type = "control" /\ r.wrote /\ r.msg \in Requests
        /\ \E i \in Ctls : ctl[i].pc = "done"

(* C22: the websocket of a connection is registered only when the endpoint
   has called authenticate_device before connect and got True, or when no
   secret key is configured. *)
C22_AuthenticatedBeforeConnect ==
    \A c \in Conns :
        conn[c].pc \in {"call", "receive"} /\ c \in Registered =>
            conn[c].auth = "passed" \/ ~AuthConfigured

(* C23: a step of the monitor's eviction loop ends suspended in the close of
   the next collected session or back in the sleep, also when the close it
   resumed from raised; the monitor task never ends on an exception; when
   the loop has ended, no session collected by the scan is registered. *)
C23_TickSurvivesFailure ==
    [][mon.pc = "call" /\ mon' # mon =>
          /\ mon'.pc \in {"call", "sleep"}
          /\ mon'.pc = "call" => /\ mon'.call.kind = "close"
                                 /\ mon'.call.code = CloseTimeout
                                 /\ Len(mon'.rest) < Len(mon.rest)
          /\ mon'.pc = "sleep" => mon.marked \cap Registered' = {}
          /\ \A r \in ev'.discs : ~r.raised /\ ~r.present]_vars

(* the close of one collected session has raised, and the monitor is
   closing the next one *)
C23_Witness ==
    /\ mon.pc = "call"
    /\ mon.call.code = CloseTimeout
    /\ \E r \in ev.discs : r.closeRaised /\ r.key # mon.call.key

(* C24: a close that the monitor awaits carries code 1008, and no close that
   a connection's task or a cloud-control handler awaits does: a
   send-failure disconnect closes with 1000, the receive loop's except
   clause with 1011. *)
C24_TimeoutCodeDistinct ==
    /\ mon.call.kind = "close" => mon.call.code = CloseTimeout
    /\ \A c \in Conns :
          conn[c].call.kind = "close" =>
              /\ conn[c].call.code # CloseTimeout
              /\ conn[c].call.code =
                     (IF conn[c].call.via = "send" THEN CloseNormal ELSE CloseInternal)
    /\ \A i \in Ctls :
          ctl[i].call.kind = "close" => ctl[i].call.code = CloseNormal
    /\ \A ws \in Conns : \A i \in 1..Len(closes[ws]) :
          closes[ws][i].code \in {CloseNormal, CloseTimeout, CloseInternal}

(* the monitor awaits a close with 1008 while a close with another code has
   been issued *)
C24_Witness ==
    /\ mon.call.kind = "close"
    /\ mon.call.code = CloseTimeout
    /\ \E ws \in Conns : \E i \in 1..Len(closes[ws]) :
          closes[ws][i].code = CloseInternal

(* C25: a receive loop that waits in receive_message on a websocket that is
   closed, by the device or by the server, leaves the loop: its task ends;
   and a frame is dispatched only from a websocket of which both states are
   CONNECTED. *)
C25_ReceiveTaskEnds ==
    /\ \A c \in Conns :
          (/\ conn[c].pc = "receive"
           /\ \/ client_state[conn[c].rws] = DISCONNECTED
              \/ application_state[conn[c].rws] = DISCONNECTED)
          ~> conn[c].pc = "done"
    /\ [][\A c \in Conns :
             conn'[c].recvd > conn[c].recvd =>
                 /\ client_state[conn[c].rws] = CONNECTED
                 /\ application_state[conn[c].rws] = CONNECTED]_vars

(* the monitor has evicted a session and the receive loop of its connection
   has ended *)
C25_Witness ==
    \E c \in Conns :
        /\ conn[c].pc = "done"
        /\ Len(closes[c]) > 0
        /\ closes[c][1].code = CloseTimeout
        /\ closes[c][1].origin = c

(* C26: a get_rtmp or get_screen request handled for a key that is not
   registered is answered, with no exception, by an envelope of type
   message with the request's event, deviceId and playId and a non-zero
   code. *)
C26_MissingSessionReply ==
    \A h \in ev.handled :
        /\ h.valid /\ ~h.registered
        /\ h.frame.type = "device_control"
        /\ h.frame.event \in {"get_rtmp", "get_screen"}
        => /\ ~h.raised
           /\ h.resp # NoReply
           /\ h.resp.type = "message"
           /\ h.resp.event = h.frame.event
           /\ h.resp.code # 0
           /\ h.resp.deviceId = DriftMessage(h.frame).deviceId
           /\ h.resp.playId = DriftMessage(h.frame).playId
           /\ h.resp.deviceId # Absent /\ h.resp.playId # Absent

(* a get_screen for a key that is not registered has been answered *)
C26_Witness ==
    \E h \in ev.handled :
        /\ h.valid /\ ~h.registered
        /\ h.frame.type = "device_control" /\ h.frame.event = "get_screen"
        /\ h.resp.code # 0

(* C27: a frame whose type is control, device_notify or message is answered
   with code -1 and the frame's deviceId and playId, and the step that
   handles it leaves both dictionaries of the registry as they are. *)
C27_UnsupportedType ==
    [][\A h \in ev'.handled :
          h.valid /\ h.frame.type \in {"control", "device_notify", "message"} =>
              /\ ~h.raised
              /\ h.resp # NoReply
              /\ h.resp.code = 0 - 1
              /\ h.resp.deviceId = DriftMessage(h.frame).deviceId
              /\ h.resp.playId = DriftMessage(h.frame).playId
              /\ active_connections' = active_connections
              /\ device_status' = device_status]_vars

(* a frame of type device_notify has been answered, later than the connect *)
C27_Witness ==
    \E h \in ev.handled :
        /\ h.valid /\ h.registered /\ h.frame.type = "device_notify"
        /\ h.resp.code = 0 - 1
        /\ h.key \in DOMAIN device_status
        /\ now > device_status[h.key].connection_time

(* C28: the step that handles a notify frame whose event is not device_info
   returns no reply and changes nothing but the last_heartbeat of the
   sending key, which becomes the current time: active_connections, both
   states of every websocket, and every other field and entry of
   device_status stay. *)
C28_NotifyOnlyRefreshes ==
    [][\A h \in ev'.handled :
          h.valid /\ h.frame.type = "notify" /\ h.frame.event # "device_info" =>
              /\ ~h.raised
              /\ h.resp = NoReply
              /\ active_connections' = active_connections
              /\ application_state' = application_state
              /\ client_state' = client_state
              /\ DOMAIN device_status' = DOMAIN device_status
              /\ \A k \in DOMAIN device_status :
                    device_status'[k] =
                        IF k = h.key
                        THEN [device_status[k] EXCEPT !.last_heartbeat = now]
                        ELSE device_status[k]]_vars

(* a control-result notify has been handled after the clock advanced *)
C28_Witness ==
    \E h \in ev.handled :
        /\ h.valid /\ h.frame.type = "notify" /\ h.frame.event = "start_rtmp"
        /\ h.key \in DOMAIN device_status
        /\ device_status[h.key].last_heartbeat = now
        /\ device_status[h.key].connection_time < now

(* C29: last_heartbeat is never earlier than connection_time; as long as a
   key holds the same websocket, its connection_time stays, its
   last_heartbeat does not decrease, and its last_heartbeat changes only in
   a step that handles a valid notify frame on that key. *)
C29_HeartbeatMonotone ==
    /\ [](\A k \in DOMAIN device_status :
             device_status[k].last_heartbeat >= device_status[k].connection_time)
    /\ [][\A k \in DOMAIN device_status \cap DOMAIN device_status' :
             /\ k \in DOMAIN active_connections
             /\ k \in DOMAIN active_connections'
             /\ active_connections'[k] = active_connections[k]
             => /\ device_status'[k].connection_time = device_status[k].connection_time
                /\ device_status'[k].last_heartbeat >= device_status[k].last_heartbeat
                /\ device_status'[k].last_heartbeat # device_status[k].last_heartbeat =>
                      \E h \in ev'.handled :
                          h.key = k /\ h.valid /\ h.frame.type = "notify"]_vars

(* a heartbeat has moved last_heartbeat past connection_time *)
C29_Witness ==
    \E k \in DOMAIN device_status :
        /\ device_status[k].last_heartbeat > device_status[k].connection_time
        /\ \E h \in ev.handled : h.key = k /\ h.frame.type = "notify"

(* C30: after an accepted device_info report the stored device_info is the
   one built from that report alone: each stream field has the report's
   value, or its default (720P, 2000000, 30) when the report does not carry
   it, whatever was stored before. *)
C30_DeviceInfoReplaced ==
    \A h \in ev.handled :
        /\ h.registered /\ h.valid
        /\ h.frame.type = "notify" /\ h.frame.event = "device_info"
        /\ DeviceInfoValid(h.frame.data)
        => /\ h.key \in DOMAIN device_status
           /\ LET d == h.frame.data
                  st == device_status[h.key].device_info
              IN /\ st.stream_res =
                       (IF "stream_res" \in DOMAIN d THEN d.stream_res.str ELSE "720P")
                 /\ st.stream_bitrate =
                       (IF "stream_bitrate" \in DOMAIN d THEN d.stream_bitrate.int
                        ELSE 2000000)
                 /\ st.stream_framerate =
                       (IF "stream_framerate" \in DOMAIN d THEN d.stream_framerate.int
                        ELSE 30)

(* a second report without stream_res has replaced one that had set 1080P *)
C30_Witness ==
    \E h \in ev.handled :
        /\ h.prior.stream_res = "1080P"
        /\ h.frame.event = "device_info"
        /\ h.frame.data = [stream_bitrate |-> JInt(4000000)]
        /\ h.key \in DOMAIN device_status
        /\ device_status[h.key].device_info.stream_res = "720P"
        /\ device_status[h.key].device_info.stream_bitrate = 4000000

(* C31: a notify/device_info frame from a registered device whose data fails
   DeviceInfo validation is answered with a reply of code -1, leaves the
   stored device_info as it was, and leaves the session registered with its
   websocket open. *)
C31_InvalidInfoRejected ==
    \A h \in ev.handled :
        /\ h.registered /\ h.valid
        /\ h.frame.type = "notify" /\ h.frame.event = "device_info"
        /\ ~DeviceInfoValid(h.frame.data)
        => /\ h.resp # NoReply
           /\ h.resp.code = -1
           /\ h.key \in DOMAIN device_status
           /\ device_status[h.key].device_info = h.prior
           /\ h.key \in DOMAIN active_connections
           /\ application_state[active_connections[h.key]] = CONNECTED

(* C32: a notify frame handled for a key that is not registered (its
   update_heartbeat, and for device_info its update_device_info, find no
   entry) raises nothing, creates no entry and changes no session: both
   dictionaries are after the step what they were before it. *)
C32_UnregisteredUpdateNoOp ==
    [][\A h \in ev'.handled :
          h.valid /\ ~h.registered /\ h.frame.type = "notify"
          => /\ ~h.raised
             /\ active_connections' = active_connections
             /\ device_status' = device_status]_vars

(* a valid device_info report has been handled for a key without a session *)
C32_Witness ==
    \E h \in ev.handled :
        /\ ~h.registered /\ h.valid
        /\ h.frame.type = "notify" /\ h.frame.event = "device_info"
        /\ DeviceInfoValid(h.frame.data)
        /\ h.key \notin DOMAIN device_status

(* C33: when a registered device sends device_control/power_off, the step that
   handles the frame returns the acknowledgement (device_notify, power_off,
   code 0, the frame's deviceId and playId) and starts its write on the
   websocket of the device's session, which is still registered after the
   step. *)
C33_PowerOffAckSent ==
    [][\A h \in ev'.handled :
          /\ h.valid /\ h.registered
          /\ h.frame.type = "device_control" /\ h.frame.event = "power_off"
          => /\ h.resp = [type |-> "device_notify", event |-> "power_off",
                          deviceId |-> h.frame.deviceId,
                          playId |-> h.frame.playId, code |-> 0,
                          data |-> EmptyData]
             /\ conn'[h.conn].pc = "call"
             /\ conn'[h.conn].call.kind = "send"
             /\ conn'[h.conn].call.msg = h.resp
             /\ conn'[h.conn].call.ws = active_connections[h.key]
             /\ h.key \in DOMAIN active_connections'
             /\ active_connections'[h.key] = active_connections[h.key]]_vars

(* the acknowledgement of a power_off has been written to the device *)
C33_Witness ==
    \E r \in ev.sends :
        /\ r.msg.type = "device_notify" /\ r.msg.event = "power_off"
        /\ r.wrote /\ r.result
        /\ r.msg.deviceId = r.key

(* C34: a connect registers a new session: connection_time and last_heartbeat
   are the time of the connect, device_info is empty and the websocket is the
   one just accepted, never closed before; so also when an earlier session of
   the same device has been destroyed. *)
C34_ReconnectIsFresh ==
    \A r \in ev.connects :
        /\ r.key \in DOMAIN active_connections
        /\ active_connections[r.key] = r.ws
        /\ closes[r.ws] = <<>>
        /\ r.key \in DOMAIN device_status
        /\ device_status[r.key] =
              [device_id |-> r.key, connection_time |-> now,
               last_heartbeat |-> now, device_info |-> NoInfo]

(* a device whose earlier session was destroyed has connected again, later *)
C34_Witness ==
    \E r \in ev.connects :
        /\ r.prior /\ ~r.replaced
        /\ now > 0
        /\ \E c \in Conns : c # r.ws /\ conn[c].pc = "done"

(* C35: a step of the task of one connection (its receive loop's except path,
   or a disconnect resumed after its close) leaves alone a session that is
   registered under the task's device_id with another websocket: the session
   stays registered and no close is issued on its websocket. *)
C35_OlderTeardownSparesNewer ==
    [][\A c \in Conns :
          conn[c].pc \in {"receive", "call"} /\ conn'[c] # conn[c]
          => \A k \in DOMAIN active_connections :
                k = conn[c].dev /\ active_connections[k] # c
                => /\ k \in DOMAIN active_connections'
                   /\ active_connections'[k] = active_connections[k]
                   /\ closes'[active_connections[k]] = closes[active_connections[k]]]_vars

(* C36: when the monitor issues a close with the timeout code, the session of
   that websocket has, at that moment, a last_heartbeat older than the
   timeout: a session refreshed or registered after the scan is not
   evicted. *)
C36_EvictedOnlyIfExpired ==
    [][\A ws \in Conns :
          /\ Len(closes'[ws]) > Len(closes[ws])
          /\ closes'[ws][Len(closes'[ws])].code = CloseTimeout
          => \E k \in DOMAIN active_connections :
                /\ active_connections[k] = ws
                /\ k \in DOMAIN device_status
                /\ Expired(now - device_status[k].last_heartbeat)]_vars

(* C37: when the write of the connection acknowledgement fails, then at the
   step in which connect returns the key is in neither dictionary, the
   websocket is not registered, and the connection's task has ended without
   having received a frame. *)
C37_FailedJoinLeavesNothing ==
    [][\A c \in Conns :
          /\ conn[c].pc = "call" /\ conn[c].ret = "join"
          /\ conn'[c].pc # "call"
          /\ \E r \in ev'.sends : r.msg = JoinAck /\ r.key = conn[c].dev /\ ~r.wrote
          => /\ conn'[c].pc = "done"
             /\ conn'[c].recvd = 0
             /\ conn[c].dev \notin DOMAIN active_connections'
             /\ conn[c].dev \notin DOMAIN device_status'
             /\ \A k \in DOMAIN active_connections' : active_connections'[k] # c]_vars

(* a connect whose acknowledgement could not be written has returned *)
C37_Witness ==
    \E r \in ev.sends :
        /\ r.msg = JoinAck /\ ~r.wrote /\ r.registered
        /\ conn[r.ws].pc = "done"
        /\ r.key \notin DOMAIN active_connections

(* C38: a cloud-control request for a deviceId without a session writes to no
   websocket and leaves the registry as it was, and its response differs from
   that of a delivered command: a response with status 200 is given only
   when send_message returned True. *)
C38_UndeliveredIsReported ==
    /\ \A r \in ev.sends :
          r.msg.type = "control" /\ ~r.registered => ~r.wrote /\ ~r.regChanged
    /\ \A i \in Ctls :
          ctl[i].pc = "done" /\ ctl[i].status = 200 => ctl[i].sent

(* C39: at every await point the two dictionaries of a manager have the same
   keys, in the device-keyed manager and in the room-indexed one, and in the
   room-indexed manager a key is in room_devices[r] exactly when the session
   registered under it has room_id r. *)
C39_RegistryMapsAgree ==
    /\ DOMAIN active_connections = DOMAIN device_status
    /\ DOMAIN manager.active_connections = DOMAIN manager.device_status
    /\ \A r \in RoomIds, k \in RoomKeys :
          (r \in DOMAIN manager.room_devices /\ k \in manager.room_devices[r])
          <=> (k \in DOMAIN manager.device_status
               /\ manager.device_status[k].room_id = r)

(* C40: a broadcast that has ended has called send_message for every key that
   was in the room when it started; what it wrote went to websockets that
   connected with the room's id; and a step of the broadcast (a send_json or
   a close that returns or raises) changes no session and no room-index entry
   other than those of the key it was sending to. *)
C40_BroadcastReachesRoomOnly ==
    /\ [](rtask.bc.pc = "done" => rtask.bc.attempted = rtask.bc.snapshot)
    /\ [](\A x \in rtask.bc.wrote : rtask.member[x.ws].room = rtask.bc.room)
    /\ [][rtask.bc.pc = "call" /\ rtask'.bc # rtask.bc
          => /\ \A k \in DOMAIN manager.active_connections \ {rtask.bc.call.key} :
                   /\ k \in DOMAIN manager'.active_connections
                   /\ manager'.active_connections[k] = manager.active_connections[k]
                   /\ manager'.device_status[k] = manager.device_status[k]
             /\ \A r \in DOMAIN manager.room_devices :
                   manager'.room_devices[r] \ {rtask.bc.call.key}
                      = manager.room_devices[r] \ {rtask.bc.call.key}]_vars

============================================================================
